---------------------------- MODULE Spec2Model ----------------------------
(***************************************************************************)
(* Session store (core/session_manager.py) and JSON-RPC dispatcher         *)
(* (core/custom_mcp_protocol.py) of the Google Workspace MCP server.       *)
(*                                                                         *)
(* Session records are objects with identity: the store maps a session id  *)
(* to a record carrying its identity, and a caller keeps the reference it   *)
(* was handed even after the store has dropped or replaced the entry.      *)
(* Every `with self._lock:` block is one atomic step; the statements a     *)
(* method runs outside the lock are steps of their own.                    *)
(***************************************************************************)
EXTENDS Integers, Sequences, FiniteSets, TLC

(***************************************************************************)
(* Bounds of the model.                                                    *)
(***************************************************************************)
MaxObjs == 2        \* session records allocated in one behaviour
MaxTime == 3601     \* the clock stops advancing here

(***************************************************************************)
(* Program constants.                                                      *)
(***************************************************************************)
session_timeout == 3600

Procs == {"p1", "p2"}

\* Session ids a client may invent; the server generates 1, 2, ... (each
\* generated id comes with a new record, so there are at most MaxObjs).
ClientIds == {101}
None == 0           \* Python None / absent / empty string (all falsy)

\* Clock advances: half the timeout, and a second more.  Two of them make
\* an idle time of exactly the timeout, or of one second over it.
TickSteps == {session_timeout \div 2, session_timeout \div 2 + 1}
\* For the dispatcher, whose behaviour depends on time only through expiry:
\* one advance that expires every session.
ExpirySteps == {session_timeout + 1}

\* JSON payloads of clientInfo / capabilities.  EmptyDict is {}; NonDict
\* stands for any JSON value that is not an object.
EmptyDict == "{}"
NonDict == "nondict"
\* (clientInfo, capabilities) pairs a caller passes
Payloads == {<<"dA", "kA">>, <<"dB", "kB">>}

VARIABLES
    sessions,       \* SessionManager.sessions, a dict: session id -> MCPSession
    now,            \* time.time()
    nextUuid,       \* the next id uuid.uuid4() hands out
    nextObj,        \* the identity of the next MCPSession object allocated
    thr,            \* per thread: position and locals of the call it runs
    registry_keys,  \* the keys of CustomMCPProtocol.tools_registry, in dict order
    initReturned    \* history: stored objects on which initialize_session returned True

vars == <<sessions, now, nextUuid, nextObj, thr, initReturned, registry_keys>>

(***************************************************************************)
(* MCPSession, lines 14-31.  `obj` is the object's identity: a caller that *)
(* was handed a record keeps it when the store drops or replaces the       *)
(* entry, and what it then writes lands on a record nobody can look up     *)
(* (such writes change no stored state and are not kept).                  *)
(***************************************************************************)
\* (a record that takes over the state of the entry it replaces)
MCPSession_inherited(session_id, t, o) ==
    [obj           |-> o,
     session_id    |-> session_id,
     created_at    |-> t,
     last_accessed |-> t,
     user_email    |-> None,
     initialized   |-> session_id \in DOMAIN sessions
                       /\ sessions[session_id].initialized,
     client_info   |-> IF session_id \in DOMAIN sessions
                       THEN sessions[session_id].client_info ELSE EmptyDict,
     capabilities  |-> IF session_id \in DOMAIN sessions
                       THEN sessions[session_id].capabilities ELSE EmptyDict]

MCPSession(session_id, t, o) ==
    [obj           |-> o,
     session_id    |-> session_id,
     created_at    |-> t,
     last_accessed |-> t,
     user_email    |-> None,
     initialized   |-> FALSE,
     client_info   |-> EmptyDict,
     capabilities  |-> EmptyDict]

\* (a touch that winds the record back to its creation)
touch_rewind(s, t) == [s EXCEPT !.last_accessed = s.created_at]

touch(s, t) == [s EXCEPT !.last_accessed = t]

\* (an expiry test that allows no idle time at all)
is_expired_eager(s, timeout_seconds, t) == (t - s.last_accessed) > 0

is_expired(s, timeout_seconds, t) == (t - s.last_accessed) > timeout_seconds

\* The ids whose entry holds object o (at most one).
KeysOf(o) == {i \in DOMAIN sessions : sessions[i].obj = o}
Stored(o) == KeysOf(o) # {}
StoredObjs(m) == {m[i].obj : i \in DOMAIN m}

(***************************************************************************)
(* Return values.                                                          *)
(***************************************************************************)
NoRet == [tag |-> "pending", val |-> 0]
RetNone == [tag |-> "None", val |-> 0]
RetSession(o) == [tag |-> "session", val |-> o]
RetBool(b) == [tag |-> "bool", val |-> IF b THEN 1 ELSE 0]
RetInt(n) == [tag |-> "int", val |-> n]
RetRaise == [tag |-> "raise", val |-> 0]
RetResponse == [tag |-> "response", val |-> 0]

\* A JSON object as a function from its keys; {} is the empty function.
EmptyArgs == [k \in {} |-> "none"]
\* params.arguments: kind is "absent", "null" or "dict" (then d is the object).
NoArgs == [kind |-> "none", d |-> EmptyArgs]
\* What the tool callable was invoked with, if it was.
NoCall == [invoked |-> FALSE, times |-> 0, args |-> EmptyArgs]

NoReq == [header |-> None, body |-> "none", jsonrpc |-> "none", id |-> None,
          method |-> "none", params |-> "none",
          clientInfo |-> "none", capabilities |-> "none",
          name |-> "none", arguments |-> NoArgs]
\* `msg` is the detail an error message (or a result's text) embeds.
NoResp == [kind |-> "none", code |-> 0, status |-> 0, id |-> None, header |-> None,
           msg |-> "none", tools |-> <<>>, content |-> <<>>]

Idle == [pc |-> "idle", op |-> "none", sid |-> None, ci |-> EmptyDict,
         cap |-> EmptyDict, sess |-> None, ret |-> NoRet,
         req |-> NoReq, resp |-> NoResp, call |-> NoCall]

\* The state after construction, for a registry discovered with the given
\* keys.
InitWith(keys) ==
    /\ sessions = [i \in {} |-> None]
    /\ now = 0
    /\ nextUuid = 1
    /\ nextObj = 1
    /\ thr = [p \in Procs |-> Idle]
    /\ initReturned = {}
    /\ registry_keys = keys

Init == InitWith(<<"search", "whoami", "reject", "crash", "abort">>)

(***************************************************************************)
(* The locked bodies of SessionManager, as functions of the store.         *)
(***************************************************************************)
\* create_session, lines 47-51: a fresh record bound to the id, replacing
\* whatever the id was bound to.
\* (a create that keeps the entry an id already has)
create_session_sessions_keeping(sid) ==
    [i \in DOMAIN sessions \cup {sid} |->
        IF i = sid /\ i \notin DOMAIN sessions
        THEN MCPSession(sid, now, nextObj) ELSE sessions[i]]

create_session_sessions(sid) ==
    [i \in DOMAIN sessions \cup {sid} |->
        IF i = sid THEN MCPSession(sid, now, nextObj) ELSE sessions[i]]

\* get_session, lines 55-64.
get_session_hit(sid) ==
    /\ sid \in DOMAIN sessions
    /\ ~is_expired(sessions[sid], session_timeout, now)

get_session_stale(sid) ==
    /\ sid \in DOMAIN sessions
    /\ is_expired(sessions[sid], session_timeout, now)

\* (a lookup that forgets the expiry check)
get_session_result_unchecked(sid) ==
    IF sid \in DOMAIN sessions THEN sessions[sid].obj ELSE None

get_session_result(sid) ==
    IF get_session_hit(sid) THEN sessions[sid].obj ELSE None

get_session_sessions(sid) ==
    IF get_session_stale(sid)
    THEN [i \in DOMAIN sessions \ {sid} |-> sessions[i]]
    ELSE IF get_session_hit(sid)
    THEN [sessions EXCEPT ![sid] = touch(@, now)]
    ELSE sessions

\* cleanup_expired_sessions, lines 99-110.
expired_sessions ==
    {i \in DOMAIN sessions : is_expired(sessions[i], session_timeout, now)}

\* (a sweep that empties the store)
cleanup_all_sessions == [i \in {} |-> None]

cleanup_expired_sessions == [i \in DOMAIN sessions \ expired_sessions |-> sessions[i]]

\* (a count of the live entries only)
get_session_count_live == Cardinality(DOMAIN sessions \ expired_sessions)

\* get_session_count, lines 114-115.
get_session_count == Cardinality(DOMAIN sessions)

\* A write through a held reference: it changes the store only if the
\* object is still the one an entry holds.
\* (a write that is forgotten)
set_client_info_dropped(o, v) == sessions

set_client_info(o, v) ==
    [i \in DOMAIN sessions |->
        IF sessions[i].obj = o THEN [sessions[i] EXCEPT !.client_info = v]
        ELSE sessions[i]]

set_capabilities(o, v) ==
    [i \in DOMAIN sessions |->
        IF sessions[i].obj = o THEN [sessions[i] EXCEPT !.capabilities = v]
        ELSE sessions[i]]

set_initialized(o, v) ==
    [i \in DOMAIN sessions |->
        IF sessions[i].obj = o THEN [sessions[i] EXCEPT !.initialized = v]
        ELSE sessions[i]]

touch_object(o) ==
    [i \in DOMAIN sessions |->
        IF sessions[i].obj = o THEN touch(sessions[i], now) ELSE sessions[i]]

(***************************************************************************)
(* Calls of the store's public methods.                                    *)
(***************************************************************************)
\* Ids a caller can name: an invented one, or one the server handed out.
KnownIds == ClientIds \cup 1..(nextUuid - 1)

Call(p, op, pc, sid, ci, cap) ==
    /\ thr[p].pc = "idle"
    /\ thr' = [thr EXCEPT ![p] = [Idle EXCEPT !.pc = pc, !.op = op, !.sid = sid,
                                               !.ci = ci, !.cap = cap]]
    /\ UNCHANGED <<sessions, now, nextUuid, nextObj, initReturned, registry_keys>>

CallCreateSession(p, ids) ==
    \E sid \in ids :
        Call(p, "create_session", "create", sid, EmptyDict, EmptyDict)

CallGetSession(p, ids) ==
    \E sid \in ids \ {None} :
        Call(p, "get_session", "get", sid, EmptyDict, EmptyDict)

CallGetOrCreateSession(p, ids) ==
    \E sid \in ids :
        Call(p, "get_or_create_session",
             IF sid # None THEN "goc_get" ELSE "create", sid, EmptyDict, EmptyDict)

CallInitializeSession(p, ids) ==
    \E sid \in ids \ {None} : \E pl \in Payloads :
        Call(p, "initialize_session", "init_get", sid, pl[1], pl[2])

CallCount(p) ==
    Call(p, "get_session_count", "count", None, EmptyDict, EmptyDict)

(***************************************************************************)
(* The dispatcher's envelopes (custom_mcp_protocol.py).                    *)
(***************************************************************************)
Methods == {"initialize", "tools/list", "resources/list", "prompts/list",
            "tools/call", "unknown/method"}

NonObjectBodies == {"array", "string", "number", "bool", "null"}

\* Request bodies.  One that is not a JSON object carries no fields.
RawBodies ==
    {[NoReq EXCEPT !.body = b] :
        b \in {"empty", "bad_utf8", "bad_json"} \cup NonObjectBodies}

\* JSON objects; `method` "absent" is a missing (or falsy) method field and
\* `params` "nondict" any params value that is not an object (null included).
\* A request that is not JSON-RPC 2.0 is rejected before its method is read.
EnvelopeBodies ==
    {[NoReq EXCEPT !.body = "object", !.jsonrpc = "2.0", !.id = i,
                   !.method = m, !.params = "absent"] :
        i \in {None, 7}, m \in Methods \cup {"absent"}}
    \cup
    {[NoReq EXCEPT !.body = "object", !.jsonrpc = j, !.id = i,
                   !.method = m, !.params = "absent"] :
        j \in {"1.0", "absent"}, i \in {None, 7}, m \in {"initialize"}}

\* (params.clientInfo, params.capabilities) of an initialize request
InitializeParams ==
    {<<"absent", "absent">>, <<"dA", "kA">>, <<"dB", "kB">>, <<NonDict, "kA">>}

ParamsBodies ==
    {[NoReq EXCEPT !.body = "object", !.jsonrpc = "2.0", !.id = i,
                   !.method = "initialize", !.params = "dict",
                   !.clientInfo = pl[1], !.capabilities = pl[2]] :
        i \in {None, 7}, pl \in InitializeParams}
    \cup
    {[NoReq EXCEPT !.body = "object", !.jsonrpc = "2.0", !.id = i,
                   !.method = m, !.params = "nondict"] :
        i \in {None, 7}, m \in {"initialize", "tools/list", "tools/call",
                                 "unknown/method"}}
    \cup
    {[NoReq EXCEPT !.body = "object", !.jsonrpc = "2.0", !.id = 7,
                   !.method = "unknown/method", !.params = "dict"]}

(***************************************************************************)
(* The tool registry (CustomMCPProtocol.tools_registry, filled once at     *)
(* startup).  A tool is its declared parameters, in order, each with its   *)
(* default or Empty (inspect.Parameter.empty), and what its body does when *)
(* it runs: return, or raise an exception of some type.  tools_registry    *)
(* holds the callables a server can register; registry_keys says which of  *)
(* them the registry holds, in the order of their registration.            *)
(***************************************************************************)
Empty == "inspect.Parameter.empty"

\* Values a tool returns: None, an int or a str.
NoValue == [type |-> "NoneType", int |-> 0, str |-> ""]
IntValue(n) == [type |-> "int", int |-> n, str |-> ""]
StrValue(text) == [type |-> "str", int |-> 0, str |-> text]

\* (repr: a str comes out in quotes)
repr(value) ==
    CASE value.type = "int" -> ToString(value.int)
      [] value.type = "str" -> ToString(value.str)
      [] OTHER -> "None"

\* Python's str() of a returned value, line 298.
str(value) ==
    CASE value.type = "int" -> ToString(value.int)
      [] value.type = "str" -> value.str
      [] OTHER -> "None"

\* A declared parameter: name, annotation (Empty when there is none) and
\* default (Empty when there is none).  typing.List[str] and
\* typing.Optional[str] are annotations that are not classes.
TypedParam(n, ann, d) == [name |-> n, annotation |-> ann, default |-> d]
Param(n, d) == TypedParam(n, Empty, d)

tools_registry ==
    [n \in {"search", "whoami", "reject", "crash", "abort", "opaque"} |->
        CASE n = "search" ->
                \* def search(service, a: str, mcp_session_id: str, b: int = d5)
                [params |-> <<Param("service", Empty), TypedParam("a", "str", Empty),
                              TypedParam("mcp_session_id", "str", Empty),
                              TypedParam("b", "int", "d5")>>,
                 signature |-> "ok", raises |-> "none", returns |-> StrValue("found")]
          [] n = "whoami" ->
                [params |-> <<TypedParam("mcp_session_id", "typing.Optional[str]",
                                         Empty)>>,
                 signature |-> "ok", raises |-> "none", returns |-> IntValue(42)]
          [] n = "reject" ->
                [params |-> <<TypedParam("a", "bool", "d1")>>,
                 signature |-> "ok", raises |-> "ValueError", returns |-> NoValue]
          [] n = "crash" ->
                [params |-> <<TypedParam("a", "list", "d1")>>,
                 signature |-> "ok", raises |-> "RuntimeError", returns |-> NoValue]
          [] n = "abort" ->
                \* raises an exception that is not an Exception (SystemExit,
                \* KeyboardInterrupt, asyncio.CancelledError)
                [params |-> <<TypedParam("a", "typing.List[str]", "d1")>>,
                 signature |-> "ok", raises |-> "BaseException", returns |-> NoValue]
          [] n = "opaque" ->
                \* a callable without a signature (a builtin such as
                \* dict.update): inspect.signature raises ValueError
                [params |-> <<Param("a", Empty)>>, signature |-> "ValueError",
                 raises |-> "none", returns |-> NoValue]]

\* The order in which server._tools holds the tools, which _discover_tools
\* copies into tools_registry and both listings iterate.
registration_order == registry_keys

\* `tool_name in self.tools_registry`
RegisteredNames == {registry_keys[i] : i \in DOMAIN registry_keys}

\* The names get_tools_list leaves out of a tool's schema, line 65.
ReservedParams == {"service", "mcp_session_id"}

ParamNames(tool) == {tool.params[i].name : i \in DOMAIN tool.params}
DefaultOf(tool, n) ==
    tool.params[CHOOSE i \in DOMAIN tool.params : tool.params[i].name = n].default

\* str(annotation), as the pieces a prefix test can tell apart: a class
\* prints as <class 'name'>, a typing alias with its module in front.
str_annotation(annotation) ==
    CASE annotation = "typing.List[str]" -> <<"typing.", "List", "[str]">>
      [] annotation = "typing.Optional[str]" -> <<"typing.", "Optional", "[str]">>
      [] OTHER -> <<"<class '", annotation, "'>">>

startswith(text, prefix) == Len(text) > 0 /\ text[1] = prefix

\* The annotation-to-type ladder both listings share
\* (custom_mcp_protocol.py lines 68-82, mcp_handlers.py lines 44-57).
param_type(annotation) ==
    IF annotation = Empty THEN "string"
    ELSE CASE annotation = "str" -> "string"
           [] annotation = "int" -> "integer"
           [] annotation = "bool" -> "boolean"
           [] annotation = "list" \/ startswith(str_annotation(annotation), "List") ->
                "array"
           [] OTHER -> "string"

ParamAt(listed, n) == listed[CHOOSE i \in DOMAIN listed : listed[i].name = n]
NamesOf(listed) == [i \in DOMAIN listed |-> listed[i].name]

\* get_tools_list, lines 54-103: one tool's entry.  `default` is "absent"
\* when the property carries no default key.
get_tools_list_entry(tool_name) ==
    LET params == tools_registry[tool_name].params
        Kept(q) == q.name \notin ReservedParams
        NoDefault(q) == q.default = Empty
        listed == SelectSeq(params, Kept)
    IN  IF tools_registry[tool_name].signature # "ok"
        THEN \* lines 105-118: inspect.signature raised; the basic entry
             [name |-> tool_name,
              properties |-> [n \in {} |-> [type |-> "string", default |-> "absent"]],
              required |-> <<>>]
        ELSE [name |-> tool_name,
              properties |-> [n \in {listed[i].name : i \in DOMAIN listed} |->
                                [type |-> param_type(ParamAt(listed, n).annotation),
                                 default |-> "absent"]],
              required |-> NamesOf(SelectSeq(listed, NoDefault))]

\* (a listing that leaves out the tools it cannot introspect)
get_tools_list_omitting ==
    LET Readable(k) == tools_registry[k].signature = "ok"
        keys == SelectSeq(registration_order, Readable)
    IN  [i \in DOMAIN keys |-> get_tools_list_entry(keys[i])]

get_tools_list ==
    [i \in DOMAIN registration_order |-> get_tools_list_entry(registration_order[i])]

\* mcp_handlers.get_registered_tools, lines 23-73: one tool's entry.
get_registered_tools_entry(tool_name) ==
    LET params == tools_registry[tool_name].params
        Kept(q) == q.name # "service"
        NoDefault(q) == q.default = Empty
        listed == SelectSeq(params, Kept)
    IN  [name |-> tool_name,
         properties |-> [n \in {listed[i].name : i \in DOMAIN listed} |->
                           [type |-> param_type(ParamAt(listed, n).annotation),
                            default |-> IF ParamAt(listed, n).default = Empty
                                        THEN "absent"
                                        ELSE ParamAt(listed, n).default]],
         required |-> NamesOf(SelectSeq(listed, NoDefault))]

\* mcp_handlers.get_registered_tools, lines 78-93: the listing returned when
\* anything in the loop raised.
known_tools ==
    <<[name |-> "start_google_auth",
       properties |-> [n \in {"service_name", "user_google_email"} |->
                         [type |-> "string", default |-> "absent"]],
       required |-> <<"service_name", "user_google_email">>]>>

get_registered_tools ==
    IF \E i \in DOMAIN registration_order :
            tools_registry[registration_order[i]].signature # "ok"
    THEN known_tools
    ELSE [i \in DOMAIN registration_order |->
            get_registered_tools_entry(registration_order[i])]

\* call_tool, lines 144-150: the keyword arguments built for the callable.
\* An entry for every declared parameter that is mcp_session_id, or a key
\* of `arguments`, or has a default; the value in that order of preference.
\* (a binding that passes every client key through)
call_args_passthrough(tool, d, session_id) ==
    [n \in ParamNames(tool) \cup DOMAIN d |->
        IF n \in DOMAIN d THEN d[n]
        ELSE IF n = "mcp_session_id" THEN session_id
        ELSE DefaultOf(tool, n)]

call_args(tool, d, session_id) ==
    [n \in {m \in ParamNames(tool) :
                \/ m = "mcp_session_id"
                \/ m \in DOMAIN d
                \/ DefaultOf(tool, m) # Empty} |->
        IF n = "mcp_session_id" THEN session_id
        ELSE IF n \in DOMAIN d THEN d[n]
        ELSE DefaultOf(tool, n)]

\* Outcomes of call_tool: a returned value, or a raised exception with its
\* type ("ValueError", some other "Exception", or a "BaseException" that
\* is not an Exception) and message.  `call` says
\* whether the callable was invoked (line 154 / 156) and with what.
Outcome(kind, msg, call) ==
    [kind |-> kind, msg |-> msg, call |-> call, value |-> NoValue]

\* Lines 152-156: Python binds the keyword arguments (a parameter without a
\* default and without an entry is a TypeError), then the body runs.
invoke(tool, args) ==
    LET call == [invoked |-> TRUE, times |-> 1, args |-> args]
    IN  IF \E n \in ParamNames(tool) : DefaultOf(tool, n) = Empty /\ n \notin DOMAIN args
        THEN Outcome("Exception", "missing required argument", call)
        ELSE CASE tool.raises = "ValueError" ->
                    Outcome("ValueError", "raised by the tool", call)
               [] tool.raises = "RuntimeError" ->
                    Outcome("Exception", "raised by the tool", call)
               [] tool.raises = "BaseException" ->
                    Outcome("BaseException", "raised by the tool", call)
               [] OTHER -> [Outcome("result", "returned by the tool", call)
                              EXCEPT !.value = tool.returns]

\* call_tool, lines 132-162.  tool_name is truthy here; "unhashable" is a
\* name that is a JSON array or object.
call_tool(tool_name, arguments, session_id) ==
    IF tool_name = "unhashable"
    THEN \* line 134: `in` hashes the name: TypeError
         Outcome("Exception", "unhashable type", NoCall)
    ELSE IF tool_name \notin RegisteredNames
    THEN \* line 135
         Outcome("ValueError", tool_name, NoCall)
    ELSE LET tool == tools_registry[tool_name]
         IN  IF tool.signature # "ok"
             THEN \* line 141: inspect.signature raises, line 162 re-raises
                  Outcome(tool.signature, "no signature found", NoCall)
             ELSE IF arguments.kind = "null" /\ ParamNames(tool) # {"mcp_session_id"}
             THEN \* line 147: `param_name in None` is a TypeError
                  Outcome("Exception", "argument of type 'NoneType' is not iterable",
                          NoCall)
             ELSE invoke(tool, call_args(tool,
                                         IF arguments.kind = "dict" THEN arguments.d
                                         ELSE EmptyArgs,
                                         session_id))

\* tools/call requests.  `name` "absent" is a missing (or falsy) params.name.
ToolCall(i, n, a) ==
    [NoReq EXCEPT !.body = "object", !.jsonrpc = "2.0", !.id = i,
                  !.method = "tools/call", !.params = "dict",
                  !.name = n, !.arguments = a]

ArgsAbsent == [kind |-> "absent", d |-> EmptyArgs]
ArgsNull == [kind |-> "null", d |-> EmptyArgs]
ArgsDict(d) == [kind |-> "dict", d |-> d]

ToolNames ==
    {"search", "whoami", "reject", "crash", "abort"}
        \cup {"missing_tool", "unhashable", "absent"}

\* One request for every way through lines 287-308.
ToolPathBodies ==
    {ToolCall(7, n, ArgsAbsent) : n \in ToolNames}
    \cup {ToolCall(7, "search", ArgsDict([k \in {"service", "a"} |-> "u"])),
          ToolCall(7, "search", ArgsNull)}

\* Every arguments object over these keys and values, for the tool that
\* declares both reserved parameters.
ArgKeys == {"service", "mcp_session_id", "a", "b", "zzz"}
ArgValues == {"u", "v"}
ArgDicts == UNION {[K -> ArgValues] : K \in SUBSET ArgKeys}

ToolBodies ==
    {ToolCall(7, "search", ArgsDict(d)) : d \in ArgDicts}
    \cup {ToolCall(i, n, a) : i \in {None, 7}, n \in ToolNames,
                              a \in {ArgsAbsent, ArgsNull, ArgsDict(EmptyArgs)}}
    \cup {[NoReq EXCEPT !.body = "object", !.jsonrpc = "2.0", !.id = 7,
                        !.method = "tools/call", !.params = p] :
            p \in {"absent", "nondict"}}

Bodies == RawBodies \cup EnvelopeBodies \cup ParamsBodies \cup ToolPathBodies

\* create_mcp_response / create_error_response with JSONResponse's status.
create_mcp_response(request_id) ==
    [kind |-> "result", code |-> 0, status |-> 200, id |-> request_id, header |-> None,
     msg |-> "none", tools |-> <<>>, content |-> <<>>]

\* (an error envelope sent with JSONResponse's default status)
create_error_response_200(request_id, code, status) ==
    [kind |-> "error", code |-> code, status |-> 200, id |-> request_id,
     header |-> None, msg |-> "none", tools |-> <<>>, content |-> <<>>]

create_error_response(request_id, code, status) ==
    [kind |-> "error", code |-> code, status |-> status, id |-> request_id,
     header |-> None, msg |-> "none", tools |-> <<>>, content |-> <<>>]

\* The top-level `except Exception`, lines 317-322.
top_level_except(req) == create_error_response(None, -32603, 500)

(***************************************************************************)
(* handle_mcp_request, lines 202-235: body parse and envelope validation.  *)
(* The result is the response the handler returns at that point, or        *)
(* NoResp when the request goes on to method routing.                      *)
(***************************************************************************)
validate_envelope(req) ==
    CASE req.body = "empty" ->
            create_error_response(None, -32700, 400)
      [] req.body = "bad_utf8" ->
            \* body.decode raises UnicodeDecodeError, which is not a
            \* JSONDecodeError: the inner except does not catch it
            top_level_except(req)
      [] req.body = "bad_json" ->
            create_error_response(None, -32700, 400)
      [] req.body \in NonObjectBodies ->
            \* line 222: rpc_request.get('id') on a non-dict raises
            top_level_except(req)
      [] req.body = "object" /\ req.jsonrpc # "2.0" ->
            create_error_response(req.id, -32600, 400)
      [] req.body = "object" /\ req.jsonrpc = "2.0" /\ req.method = "absent" ->
            create_error_response(req.id, -32600, 400)
      [] OTHER -> NoResp

\* The methods the routing knows, lines 238-285.
RoutedMethods == {"initialize", "tools/list", "resources/list", "prompts/list",
                  "tools/call"}

\* (a routing that reads params before it looks at the method)
route_params_first(req) ==
    IF req.params = "nondict" THEN top_level_except(req)
    ELSE IF req.method \in {"tools/list", "resources/list", "prompts/list"}
    THEN create_mcp_response(req.id)
    ELSE [create_error_response(req.id, -32601, 404) EXCEPT !.msg = req.method]

\* Lines 267-315: the methods that touch no session.
route_stateless(req) ==
    CASE req.method = "tools/list" ->
            [create_mcp_response(req.id) EXCEPT !.tools = get_tools_list]
      [] req.method \in {"resources/list", "prompts/list"} ->
            create_mcp_response(req.id)
      [] req.method = "tools/call" /\ req.params = "nondict" ->
            \* params.get raises AttributeError
            top_level_except(req)
      [] req.method = "tools/call" /\ req.params = "absent" ->
            \* params defaults to {}: no tool name
            create_error_response(req.id, -32602, 400)
      [] OTHER ->
            \* lines 310-315: the message names the method
            [create_error_response(req.id, -32601, 404) EXCEPT !.msg = req.method]

\* (a dispatch that serves only callers whose session is initialized)
route_tools_call_initialized(req, session_id) ==
    IF ~(session_id \in DOMAIN sessions /\ sessions[session_id].initialized)
    THEN [resp |-> create_error_response(req.id, -32002, 400), call |-> NoCall]
    ELSE IF req.name = "absent"
    THEN [resp |-> create_error_response(req.id, -32602, 400), call |-> NoCall]
    ELSE LET out == call_tool(req.name, req.arguments, session_id)
         IN  [resp |->
                 CASE out.kind = "result" ->
                        [create_mcp_response(req.id) EXCEPT
                            !.msg = out.msg,
                            !.content = <<[type |-> "text",
                                           text |-> str(out.value)]>>]
                   [] out.kind = "ValueError" ->
                        [create_error_response(req.id, -32601, 404)
                            EXCEPT !.msg = out.msg]
                   [] out.kind = "BaseException" ->
                        \* neither `except Exception` (lines 304, 317) catches
                        \* it: the handler builds no response
                        NoResp
                   [] OTHER ->
                        [create_error_response(req.id, -32603, 500)
                            EXCEPT !.msg = out.msg],
              call |-> out.call]

\* handle_mcp_request, lines 287-308, for params that is a JSON object:
\* the response and the invocation made on the way.
route_tools_call(req, session_id) ==
    IF req.name = "absent"
    THEN [resp |-> create_error_response(req.id, -32602, 400), call |-> NoCall]
    ELSE LET out == call_tool(req.name, req.arguments, session_id)
         IN  [resp |->
                 CASE out.kind = "result" ->
                        [create_mcp_response(req.id) EXCEPT
                            !.msg = out.msg,
                            !.content = <<[type |-> "text",
                                           text |-> str(out.value)]>>]
                   [] out.kind = "ValueError" ->
                        [create_error_response(req.id, -32601, 404)
                            EXCEPT !.msg = out.msg]
                   [] out.kind = "BaseException" ->
                        \* neither `except Exception` (lines 304, 317) catches
                        \* it: the handler builds no response
                        NoResp
                   [] OTHER ->
                        [create_error_response(req.id, -32603, 500)
                            EXCEPT !.msg = out.msg],
              call |-> out.call]

\* Lines 241-244 of the initialize branch, entered when
\* get_or_create_session has returned object o.
initialize_params(t, o) ==
    IF t.req.params = "nondict"
    THEN [t EXCEPT !.pc = "done", !.sess = o, !.ret = RetResponse,
                   !.resp = top_level_except(t.req)]
    ELSE [t EXCEPT !.pc = "init_get", !.sess = o,
                   !.ci = IF t.req.params = "dict" /\ t.req.clientInfo # "absent"
                          THEN t.req.clientInfo ELSE EmptyDict,
                   !.cap = IF t.req.params = "dict" /\ t.req.capabilities # "absent"
                           THEN t.req.capabilities ELSE EmptyDict]

\* Lines 244-265: what the handler does with initialize_session's outcome
\* ("True", "False" or "raise").  The boolean is discarded.
initialize_response(t, outcome) ==
    IF outcome = "raise"
    THEN top_level_except(t.req)
    ELSE [create_mcp_response(t.req.id) EXCEPT !.header = t.sid]

(***************************************************************************)
(* Where a thread goes when the store method it is in returns.             *)
(***************************************************************************)
after_get_or_create(t, o) ==
    IF t.op = "handle_mcp_request"
    THEN initialize_params(t, o)
    ELSE [t EXCEPT !.pc = "done", !.sess = o, !.ret = RetSession(o)]

after_initialize(t, outcome) ==
    IF t.op = "handle_mcp_request"
    THEN [t EXCEPT !.pc = "done", !.ret = RetResponse,
                   !.resp = initialize_response(t, outcome)]
    ELSE [t EXCEPT !.pc = "done",
                   !.ret = IF outcome = "raise" THEN RetRaise
                           ELSE RetBool(outcome = "True")]

(***************************************************************************)
(* Steps of the store's methods.                                           *)
(***************************************************************************)
\* The history keeps only objects that are still stored.
Returned(S, m) == S \cap StoredObjs(m)

\* create_session, lines 44-51.
CreateSession(p) ==
    LET t == thr[p]
        sid == IF t.sid = None THEN nextUuid ELSE t.sid
    IN  /\ t.pc = "create"
        /\ nextObj <= MaxObjs
        /\ sessions' = create_session_sessions(sid)
        /\ nextObj' = nextObj + 1
        /\ nextUuid' = IF t.sid = None THEN nextUuid + 1 ELSE nextUuid
        /\ initReturned' = Returned(initReturned, sessions')
        /\ thr' = [thr EXCEPT ![p] =
                     IF t.op = "create_session"
                     THEN [t EXCEPT !.pc = "done", !.sid = sid, !.sess = nextObj,
                                    !.ret = RetSession(nextObj)]
                     ELSE after_get_or_create([t EXCEPT !.sid = sid], nextObj)]
        /\ UNCHANGED <<now, registry_keys>>

\* get_session, lines 55-64, called directly.
GetSession(p) ==
    LET t == thr[p]
        r == get_session_result(t.sid)
    IN  /\ t.pc = "get"
        /\ sessions' = get_session_sessions(t.sid)
        /\ initReturned' = Returned(initReturned, sessions')
        /\ thr' = [thr EXCEPT ![p] =
                     [t EXCEPT !.pc = "done", !.sess = r,
                               !.ret = IF r # None THEN RetSession(r) ELSE RetNone]]
        /\ UNCHANGED <<now, nextUuid, nextObj, registry_keys>>

\* get_or_create_session, lines 68-71: the lookup; line 74 follows at "create".
GetOrCreateLookup(p) ==
    LET t == thr[p]
        r == get_session_result(t.sid)
    IN  /\ t.pc = "goc_get"
        /\ sessions' = get_session_sessions(t.sid)
        /\ initReturned' = Returned(initReturned, sessions')
        /\ thr' = [thr EXCEPT ![p] =
                     IF r # None THEN after_get_or_create(t, r)
                     ELSE [t EXCEPT !.pc = "create"]]
        /\ UNCHANGED <<now, nextUuid, nextObj, registry_keys>>

\* initialize_session, lines 79-82: the lookup.
InitializeLookup(p) ==
    LET t == thr[p]
        r == get_session_result(t.sid)
    IN  /\ t.pc = "init_get"
        /\ sessions' = get_session_sessions(t.sid)
        /\ initReturned' = Returned(initReturned, sessions')
        /\ thr' = [thr EXCEPT ![p] =
                     IF r = None THEN after_initialize(t, "False")
                     ELSE [t EXCEPT !.pc = "init_ci", !.sess = r]]
        /\ UNCHANGED <<now, nextUuid, nextObj, registry_keys>>

\* initialize_session, lines 84-87: four writes to the record, outside the lock.
InitializeClientInfo(p) ==
    LET t == thr[p]
    IN  /\ t.pc = "init_ci"
        /\ sessions' = set_client_info(t.sess, t.ci)
        /\ thr' = [thr EXCEPT ![p].pc = "init_cap"]
        /\ UNCHANGED <<now, nextUuid, nextObj, initReturned, registry_keys>>

InitializeCapabilities(p) ==
    LET t == thr[p]
    IN  /\ t.pc = "init_cap"
        /\ sessions' = set_capabilities(t.sess, t.cap)
        /\ thr' = [thr EXCEPT ![p].pc = "init_flag"]
        /\ UNCHANGED <<now, nextUuid, nextObj, initReturned, registry_keys>>

InitializeFlag(p) ==
    LET t == thr[p]
    IN  /\ t.pc = "init_flag"
        /\ sessions' = set_initialized(t.sess, TRUE)
        /\ thr' = [thr EXCEPT ![p].pc = "init_touch"]
        /\ UNCHANGED <<now, nextUuid, nextObj, initReturned, registry_keys>>

\* Line 87, then line 89 (client_info.get raises on a non-dict) and line 90.
InitializeTouch(p) ==
    LET t == thr[p]
        outcome == IF t.ci = NonDict THEN "raise" ELSE "True"
    IN  /\ t.pc = "init_touch"
        /\ sessions' = touch_object(t.sess)
        /\ initReturned' = Returned(IF outcome = "True"
                                    THEN initReturned \cup {t.sess}
                                    ELSE initReturned, sessions')
        /\ thr' = [thr EXCEPT ![p] = after_initialize(t, outcome)]
        /\ UNCHANGED <<now, nextUuid, nextObj, registry_keys>>

\* cleanup_expired_sessions, lines 99-110: one locked block, run by
\* whoever sweeps.
Sweep ==
    /\ sessions' = cleanup_expired_sessions
    /\ initReturned' = Returned(initReturned, sessions')
    /\ UNCHANGED <<now, nextUuid, nextObj, thr, registry_keys>>

\* get_session_count, lines 114-115.
Count(p) ==
    /\ thr[p].pc = "count"
    /\ thr' = [thr EXCEPT ![p].pc = "done", ![p].ret = RetInt(get_session_count)]
    /\ UNCHANGED <<sessions, now, nextUuid, nextObj, initReturned, registry_keys>>

\* The caller takes the result; the thread is free again.
Return(p) ==
    /\ thr[p].pc = "done"
    /\ thr' = [thr EXCEPT ![p] = Idle]
    /\ UNCHANGED <<sessions, now, nextUuid, nextObj, initReturned, registry_keys>>

(***************************************************************************)
(* Steps of handle_mcp_request.                                            *)
(***************************************************************************)
\* Lines 196-237 and the branches of the routing that touch no session.
\* Line 196-200: the session id is the header's, or that of a session
\* created on the spot.  An initialize request goes on to line 240.
\* (a session extraction that looks the caller's token up, as get_session
\* would, renewing its record)
header_sessions_touching(header) ==
    IF header = None THEN create_session_sessions(nextUuid)
    ELSE IF header \in DOMAIN sessions
    THEN [sessions EXCEPT ![header] = touch(@, now)]
    ELSE sessions

\* Lines 196-200: the store after the session id is taken from the header.
\* Without a header a session is created under a generated id; a token in
\* the header is used as it is, without a lookup.
header_sessions(header) ==
    IF header = None THEN create_session_sessions(nextUuid) ELSE sessions

ReceiveWith(p, headers, bodies) ==
    \E h \in headers, body \in bodies :
        LET req == [body EXCEPT !.header = h]
            gen == req.header = None
            early == validate_envelope(req)
            session_id == IF gen THEN nextUuid ELSE req.header
            t == [Idle EXCEPT !.op = "handle_mcp_request", !.req = req,
                              !.sid = IF gen THEN nextUuid ELSE req.header,
                              !.sess = IF gen THEN nextObj ELSE None]
        IN  /\ thr[p].pc = "idle"
            /\ gen => nextObj <= MaxObjs
            /\ sessions' = header_sessions(req.header)
            /\ nextObj' = IF gen THEN nextObj + 1 ELSE nextObj
            /\ nextUuid' = IF gen THEN nextUuid + 1 ELSE nextUuid
            /\ initReturned' = Returned(initReturned, sessions')
            /\ thr' = [thr EXCEPT ![p] =
                         IF early # NoResp
                         THEN [t EXCEPT !.pc = "done", !.ret = RetResponse,
                                        !.resp = early]
                         ELSE IF req.method = "initialize"
                         THEN [t EXCEPT !.pc = "goc_get"]
                         ELSE IF req.method = "tools/call" /\ req.params = "dict"
                         THEN IF route_tools_call(req, session_id).resp = NoResp
                              THEN [t EXCEPT !.pc = "raised", !.ret = RetRaise,
                                     !.call = route_tools_call(req, session_id).call]
                              ELSE [t EXCEPT !.pc = "done", !.ret = RetResponse,
                                     !.resp = route_tools_call(req, session_id).resp,
                                     !.call = route_tools_call(req, session_id).call]
                         ELSE [t EXCEPT !.pc = "done", !.ret = RetResponse,
                                        !.resp = route_stateless(req)]]
            /\ UNCHANGED <<now, registry_keys>>

\* The header is absent, a client's own token, or a token the server
\* generated earlier.
ReceiveFrom(p, bodies) == ReceiveWith(p, KnownIds \cup {None}, bodies)

Receive(p) == ReceiveFrom(p, Bodies)

\* mcp_handlers.handle_tools_list, lines 107-132: the route /mcp/tools/list.
\* The body is not read; the id is always 1.
HandleToolsList(p) ==
    /\ thr[p].pc = "idle"
    /\ thr' = [thr EXCEPT ![p] =
                 [Idle EXCEPT !.pc = "done", !.op = "handle_tools_list",
                              !.ret = RetResponse,
                              !.resp = [create_mcp_response(1) EXCEPT
                                           !.tools = get_registered_tools]]]
    /\ UNCHANGED <<sessions, now, nextUuid, nextObj, initReturned, registry_keys>>

\* An exception leaves handle_mcp_request; the thread is free again.
Propagate(p) ==
    /\ thr[p].pc = "raised"
    /\ thr' = [thr EXCEPT ![p] = Idle]
    /\ UNCHANGED <<sessions, now, nextUuid, nextObj, initReturned, registry_keys>>

\* time.time() moves on.
Tick(steps) ==
    /\ \E d \in steps : now + d <= MaxTime /\ now' = now + d
    /\ UNCHANGED <<sessions, nextUuid, nextObj, thr, initReturned, registry_keys>>

(***************************************************************************)
(* Specifications.                                                         *)
(***************************************************************************)
StoreCall(p, ids) ==
    \/ CallCreateSession(p, ids)
    \/ CallGetSession(p, ids)
    \/ CallGetOrCreateSession(p, ids)
    \/ CallInitializeSession(p, ids)

StoreStep(p) ==
    \/ CreateSession(p)
    \/ GetSession(p)
    \/ GetOrCreateLookup(p)
    \/ InitializeLookup(p)
    \/ InitializeClientInfo(p)
    \/ InitializeCapabilities(p)
    \/ InitializeFlag(p)
    \/ InitializeTouch(p)
    \/ Return(p)

HandlerStep(p) ==
    \/ Receive(p)
    \/ CreateSession(p)
    \/ GetOrCreateLookup(p)
    \/ InitializeLookup(p)
    \/ InitializeClientInfo(p)
    \/ InitializeCapabilities(p)
    \/ InitializeFlag(p)
    \/ InitializeTouch(p)
    \/ Return(p)
    \/ Propagate(p)

SeqProc == "p1"

\* Threads calling get_or_create_session concurrently on the same session id.
NextRace ==
    \/ Tick(TickSteps)
    \/ \E p \in Procs :
        \/ CallGetOrCreateSession(p, ClientIds)
        \/ GetOrCreateLookup(p)
        \/ CreateSession(p)
        \/ Return(p)
SpecRace == Init /\ [][NextRace]_vars

\* Threads calling the store's methods concurrently on the same session id.
NextStore == Tick(TickSteps) \/ Sweep \/ \E p \in Procs : StoreCall(p, ClientIds) \/ StoreStep(p)
SpecStore == Init /\ [][NextStore]_vars

\* One caller of the store's methods, any id; it sweeps between calls.
NextSeq ==
    \/ Tick(TickSteps)
    \/ (thr[SeqProc].pc = "idle" /\ Sweep)
    \/ StoreCall(SeqProc, KnownIds \cup {None})
    \/ CallCount(SeqProc)
    \/ Count(SeqProc)
    \/ StoreStep(SeqProc)
SpecSeq == Init /\ [][NextSeq]_vars

\* One request at a time through the dispatcher.
NextHttp == Tick(ExpirySteps) \/ Sweep \/ HandlerStep(SeqProc)
SpecHttp == Init /\ [][NextHttp]_vars

\* One tools/call request at a time through the dispatcher.
NextTools ==
    \/ Tick(ExpirySteps)
    \/ Sweep
    \/ ReceiveFrom(SeqProc, ToolBodies)
    \/ Return(SeqProc)
    \/ Propagate(SeqProc)
SpecTools == Init /\ [][NextTools]_vars

\* One request at a time, of every kind but initialize: the requests that
\* are answered without a session lookup.
RouteBodies == {b \in Bodies : b.method # "initialize"}
NextRoute ==
    \/ Tick(ExpirySteps)
    \/ Sweep
    \/ ReceiveFrom(SeqProc, RouteBodies)
    \/ HandleToolsList(SeqProc)
    \/ Return(SeqProc)
    \/ Propagate(SeqProc)
SpecRoute == Init /\ [][NextRoute]_vars

\* One request at a time, of every kind; an initialize request sends no
\* clientInfo or one that is not an object.
AnswerBodies == {b \in Bodies : b.clientInfo \in {"none", "absent", NonDict}}
NextAnswers ==
    \/ Tick(ExpirySteps)
    \/ Sweep
    \/ ReceiveFrom(SeqProc, AnswerBodies)
    \/ CreateSession(SeqProc)
    \/ GetOrCreateLookup(SeqProc)
    \/ InitializeLookup(SeqProc)
    \/ InitializeClientInfo(SeqProc)
    \/ InitializeCapabilities(SeqProc)
    \/ InitializeFlag(SeqProc)
    \/ InitializeTouch(SeqProc)
    \/ Return(SeqProc)
    \/ Propagate(SeqProc)
SpecAnswers == Init /\ [][NextAnswers]_vars

\* One client sending initialize with well-formed payloads and tools/call,
\* one request at a time, and a second client sending tools/call.
OtherProc == "p2"
PlainToolBodies ==
    {ToolCall(7, n, ArgsAbsent) : n \in {"whoami", "abort", "missing_tool"}}
ReinitBodies ==
    {b \in ParamsBodies : /\ b.method = "initialize" /\ b.params = "dict"
                          /\ b.id = 7 /\ b.clientInfo # NonDict}
    \cup PlainToolBodies
NextReinit ==
    \/ Tick(ExpirySteps)
    \/ Sweep
    \/ ReceiveFrom(SeqProc, ReinitBodies)
    \/ CreateSession(SeqProc)
    \/ GetOrCreateLookup(SeqProc)
    \/ InitializeLookup(SeqProc)
    \/ InitializeClientInfo(SeqProc)
    \/ InitializeCapabilities(SeqProc)
    \/ InitializeFlag(SeqProc)
    \/ InitializeTouch(SeqProc)
    \/ Return(SeqProc)
    \/ Propagate(SeqProc)
    \/ ReceiveWith(OtherProc, ClientIds, PlainToolBodies)
    \/ Return(OtherProc)
    \/ Propagate(OtherProc)
SpecReinit == Init /\ [][NextReinit]_vars

\* Registries _discover_tools can have built, some holding a callable that
\* inspect.signature cannot read; then one request at a time, a listing or
\* a call without arguments.
Registries ==
    {<<"search", "whoami", "reject", "crash", "abort">>,
     <<"search", "opaque", "abort">>,
     <<"opaque", "whoami">>,
     <<"opaque">>,
     <<>>}
RegistryBodies ==
    {[NoReq EXCEPT !.body = "object", !.jsonrpc = "2.0", !.id = i,
                   !.method = "tools/list", !.params = "absent"] : i \in {None, 7}}
    \cup {ToolCall(7, n, ArgsAbsent) : n \in {"whoami", "opaque", "abort"}}
InitRegistry == \E keys \in Registries : InitWith(keys)
NextRegistry ==
    \/ Tick(ExpirySteps)
    \/ Sweep
    \/ ReceiveFrom(SeqProc, RegistryBodies)
    \/ HandleToolsList(SeqProc)
    \/ Return(SeqProc)
    \/ Propagate(SeqProc)
SpecRegistry == InitRegistry /\ [][NextRegistry]_vars

\* One caller of get_or_create_session, and nothing else but sweeps.
NextTwice ==
    \/ Tick(TickSteps)
    \/ Sweep
    \/ CallGetOrCreateSession(SeqProc, KnownIds \cup {None})
    \/ GetOrCreateLookup(SeqProc)
    \/ CreateSession(SeqProc)
    \/ Return(SeqProc)
SpecTwice == Init /\ [][NextTwice]_vars

\* Everything at once.
Next ==
    \/ Tick(TickSteps)
    \/ Sweep
    \/ \E p \in Procs :
        \/ StoreCall(p, KnownIds \cup {None})
        \/ CallCount(p)
        \/ Count(p)
        \/ StoreStep(p)
        \/ Receive(p)
        \/ HandleToolsList(p)
        \/ Propagate(p)
Spec == Init /\ [][Next]_vars

(***************************************************************************)
(* Properties.                                                             *)
(***************************************************************************)
\* The entry under sid has been idle for longer than the timeout.
IdleTooLong(sid) ==
    sid \in DOMAIN sessions /\ now - sessions[sid].last_accessed > session_timeout

\* Thread p takes the step at position pc.
Steps(p, pc) == thr[p].pc = pc /\ thr'[p] # thr[p]

\* C1: get_session and get_or_create_session never return a record whose
\* idle time, at the moment of the lookup, exceeds session_timeout: the
\* lookup removes an expired entry, get_session then returns None, and
\* get_or_create_session goes on to return a record it creates.
C1_NoExpiredReturn ==
    [][\A p \in Procs :
        LET t == thr[p]
            u == thr'[p]
        IN  /\ (Steps(p, "get") \/ Steps(p, "goc_get")) =>
                /\ IdleTooLong(t.sid) =>
                      /\ t.sid \notin DOMAIN sessions'
                      /\ t.pc = "get" => u.pc = "done" /\ u.ret = RetNone
                      /\ t.pc = "goc_get" => u.pc = "create"
                /\ u.ret.tag = "session" =>
                      /\ t.sid \in DOMAIN sessions
                      /\ ~IdleTooLong(t.sid)
                      /\ u.ret.val = sessions[t.sid].obj
            /\ (Steps(p, "create") /\ t.op = "get_or_create_session") =>
                /\ u.ret = RetSession(nextObj)
                /\ nextObj \notin StoredObjs(sessions)
                /\ sessions'[u.sid].obj = nextObj
                /\ sessions'[u.sid].created_at = now
                /\ sessions'[u.sid].last_accessed = now
                /\ ~sessions'[u.sid].initialized]_vars

\* get_session has answered None at a time when the only record ever
\* created, under a client's id, has outlived the timeout and is gone.
C1_Witness ==
    /\ thr[SeqProc].pc = "done"
    /\ thr[SeqProc].op = "get_session"
    /\ thr[SeqProc].ret = RetNone
    /\ thr[SeqProc].sid \in ClientIds
    /\ now > session_timeout
    /\ nextObj = 2 /\ nextUuid = 1
    /\ DOMAIN sessions = {}

\* C2: under every interleaving, when initialize_session(id, clientInfo,
\* capabilities) returns True the record stored under id at that moment
\* has initialized = True and exactly that clientInfo and capabilities,
\* and no write of the call lands on a record that has left the store.
C2_InitializeSerialized ==
    [][\A p \in Procs :
        LET t == thr[p]
            u == thr'[p]
        IN  /\ (Steps(p, "init_touch") /\ t.op = "initialize_session"
                                       /\ u.ret = RetBool(TRUE)) =>
                /\ t.sid \in DOMAIN sessions'
                /\ sessions'[t.sid].initialized
                /\ sessions'[t.sid].client_info = t.ci
                /\ sessions'[t.sid].capabilities = t.cap
            /\ (\/ Steps(p, "init_ci") \/ Steps(p, "init_cap")
                \/ Steps(p, "init_flag") \/ Steps(p, "init_touch")) =>
                Stored(t.sess)]_vars

\* C3: while nothing can have expired, every thread that holds the result
\* of get_or_create_session(id) holds the record stored under id, so two
\* concurrent calls for an id that was not in the store hold the same one.
C3_SameRecord ==
    now <= session_timeout =>
        \A p \in Procs :
            (thr[p].pc = "done" /\ thr[p].op = "get_or_create_session") =>
                /\ thr[p].sid \in DOMAIN sessions
                /\ sessions[thr[p].sid].obj = thr[p].ret.val
                /\ \A q \in Procs :
                      (thr[q].pc = "done" /\ thr[q].op = "get_or_create_session"
                                          /\ thr[q].sid = thr[p].sid) =>
                          thr[q].ret = thr[p].ret

\* C4: initialize_session returns False exactly when id has no entry or
\* its entry is expired at the call, and then no stored session gains
\* initialized or has its client_info / capabilities changed; otherwise it
\* goes on to return True with initialized set and both payloads stored
\* verbatim on the record that id was bound to.
C4_InitializeContract ==
    [][\A p \in Procs :
        LET t == thr[p]
            u == thr'[p]
            gone == t.sid \notin DOMAIN sessions \/ IdleTooLong(t.sid)
        IN  /\ (Steps(p, "init_get") /\ t.op = "initialize_session") =>
                /\ (u.pc = "done" /\ u.ret = RetBool(FALSE)) <=> gone
                /\ gone =>
                      \A i \in DOMAIN sessions' :
                          /\ i \in DOMAIN sessions
                          /\ sessions'[i].initialized = sessions[i].initialized
                          /\ sessions'[i].client_info = sessions[i].client_info
                          /\ sessions'[i].capabilities = sessions[i].capabilities
                /\ ~gone => u.pc = "init_ci" /\ u.sess = sessions[t.sid].obj
            /\ (Steps(p, "init_touch") /\ t.op = "initialize_session") =>
                /\ u.pc = "done" /\ u.ret = RetBool(TRUE)
                /\ t.sid \in DOMAIN sessions'
                /\ sessions'[t.sid].obj = t.sess
                /\ sessions'[t.sid].initialized
                /\ sessions'[t.sid].client_info = t.ci
                /\ sessions'[t.sid].capabilities = t.cap
            /\ (u # t /\ u.op = "initialize_session" /\ u.ret.tag = "bool") =>
                t.pc \in {"init_get", "init_touch"}]_vars

\* initialize_session has just returned False for an id whose record
\* expired, while another session, initialized by an earlier call that
\* returned True, is still stored.
C4_Witness ==
    /\ thr[SeqProc].pc = "done"
    /\ thr[SeqProc].op = "initialize_session"
    /\ thr[SeqProc].ret = RetBool(FALSE)
    /\ thr[SeqProc].sid \in ClientIds
    /\ now > session_timeout
    /\ nextObj = 3
    /\ \E i \in DOMAIN sessions :
          /\ i # thr[SeqProc].sid
          /\ sessions[i].initialized
          /\ sessions[i].client_info = "dA"
          /\ sessions[i].capabilities = "kA"
          /\ sessions[i].obj \in initReturned

\* C5: a stored session with initialized = True became so through an
\* initialize_session call that returned True on that record (or is about
\* to: the call has written the flag and not yet returned).
C5_InitializedByReturn ==
    \A i \in DOMAIN sessions :
        sessions[i].initialized =>
            \/ sessions[i].obj \in initReturned
            \/ \E p \in Procs : thr[p].pc = "init_touch" /\ thr[p].sess = sessions[i].obj

\* The payload an initialize request asks to be stored.
Expected(v) == IF v \in {"absent", "none"} THEN EmptyDict ELSE v

\* C6: an initialize request answered with a result leaves the session
\* stored under the response's mcp-session-id initialized, with the
\* request's clientInfo and capabilities (empty objects when absent); the
\* response's token is the request's, or the id generated for the request.
C6_InitializeLeavesSession ==
    [][\A p \in Procs :
        LET t == thr[p]
            u == thr'[p]
            tok == u.resp.header
        IN  (/\ t.pc # "done" /\ u.pc = "done"
             /\ u.op = "handle_mcp_request"
             /\ u.req.method = "initialize"
             /\ u.resp.kind = "result") =>
                /\ tok \in DOMAIN sessions'
                /\ sessions'[tok].initialized
                /\ sessions'[tok].client_info = Expected(u.req.clientInfo)
                /\ sessions'[tok].capabilities = Expected(u.req.capabilities)
                /\ u.req.header # None => tok = u.req.header
                /\ u.req.header = None => tok = t.sid /\ tok \notin ClientIds]_vars

\* C7: when initialize_session returns False inside an initialize request,
\* the dispatcher answers with an error envelope.
C7_InitializeFailureSurfaced ==
    [][\A p \in Procs :
        LET t == thr[p]
            u == thr'[p]
        IN  (/\ Steps(p, "init_get")
             /\ t.op = "handle_mcp_request"
             /\ (t.sid \notin DOMAIN sessions \/ IdleTooLong(t.sid))) =>
                u.pc = "done" /\ u.resp.kind = "error"]_vars

\* C8: the response to a request whose body is a JSON object carries the
\* request's id (null when it has none).
C8_IdEchoed ==
    \A p \in Procs :
        (thr[p].pc = "done" /\ thr[p].op = "handle_mcp_request"
                            /\ thr[p].req.body = "object") =>
            thr[p].resp.id = thr[p].req.id

\* C9: JSON that is not an object, an object whose jsonrpc is not "2.0",
\* and a 2.0 object without a method are answered with -32600 and HTTP 400.
C9_InvalidRequest ==
    \A p \in Procs :
        (/\ thr[p].pc = "done" /\ thr[p].op = "handle_mcp_request"
         /\ \/ thr[p].req.body \in NonObjectBodies
            \/ thr[p].req.body = "object" /\ thr[p].req.jsonrpc # "2.0"
            \/ thr[p].req.body = "object" /\ thr[p].req.method = "absent") =>
            /\ thr[p].resp.kind = "error"
            /\ thr[p].resp.code = -32600
            /\ thr[p].resp.status = 400

\* C10: an empty body and a body that is not parseable JSON are answered
\* with -32700, id null and HTTP 400, with or without a session header.
C10_ParseError ==
    \A p \in Procs :
        (/\ thr[p].pc = "done" /\ thr[p].op = "handle_mcp_request"
         /\ thr[p].req.body \in {"empty", "bad_utf8", "bad_json"}) =>
            /\ thr[p].resp.kind = "error"
            /\ thr[p].resp.code = -32700
            /\ thr[p].resp.id = None
            /\ thr[p].resp.status = 400

\* Thread p holds the response to a well-formed JSON-RPC 2.0 request object.
Answered(p) ==
    /\ thr[p].pc = "done" /\ thr[p].op = "handle_mcp_request"
    /\ thr[p].req.body = "object" /\ thr[p].req.jsonrpc = "2.0"

\* C11: a JSON-RPC 2.0 request object that names a method (a non-empty one)
\* outside initialize, tools/list, resources/list, prompts/list, tools/call
\* is answered with error -32601 whose message names the method and with
\* HTTP 404, whatever its params and its session header.
C11_UnknownMethod ==
    \A p \in Procs :
        (Answered(p) /\ thr[p].req.method \notin RoutedMethods \cup {"absent"}) =>
            /\ thr[p].resp.kind = "error"
            /\ thr[p].resp.code = -32601
            /\ thr[p].resp.status = 404
            /\ thr[p].resp.msg = thr[p].req.method
            /\ thr[p].resp.id = thr[p].req.id

\* An unknown method with params that is not an object, sent under a
\* session id the store does not know, has been answered.
C11_Witness ==
    /\ Answered(SeqProc)
    /\ thr[SeqProc].req.method = "unknown/method"
    /\ thr[SeqProc].req.params = "nondict"
    /\ thr[SeqProc].req.header \in ClientIds
    /\ thr[SeqProc].req.header \notin DOMAIN sessions
    /\ thr[SeqProc].resp.code = -32601

\* Thread p holds the response to a tools/call request whose params is an
\* object with a name.
Called(p) ==
    /\ Answered(p)
    /\ thr[p].req.method = "tools/call" /\ thr[p].req.params = "dict"
    /\ thr[p].req.name # "absent"

\* C12: a tools/call response has code -32601 only when the name is not in
\* the registry; when the named tool is in the registry and binding its
\* arguments or running it raises, whatever the exception's type, the
\* response is -32603 with HTTP 500 and carries the exception's message.
C12_ToolFailureCodes ==
    \A p \in Procs :
        Called(p) =>
            LET out == call_tool(thr[p].req.name, thr[p].req.arguments, thr[p].sid)
            IN  /\ thr[p].resp.code = -32601 =>
                    thr[p].req.name \notin RegisteredNames
                /\ (thr[p].req.name \in RegisteredNames /\ out.kind # "result") =>
                    /\ thr[p].resp.kind = "error"
                    /\ thr[p].resp.code = -32603
                    /\ thr[p].resp.status = 500
                    /\ thr[p].resp.msg = out.msg

\* C13: a tools/call request without a params.name (missing or empty, or
\* no params object to hold one) is answered with -32602 and HTTP 400; one
\* whose params.name is not a key of the registry with -32601, HTTP 404 and
\* the name in the message; neither invokes a tool.
C13_NameChecked ==
    \A p \in Procs :
        (Answered(p) /\ thr[p].req.method = "tools/call") =>
            /\ (thr[p].req.params # "dict" \/ thr[p].req.name = "absent") =>
                    /\ thr[p].resp.kind = "error"
                    /\ thr[p].resp.code = -32602
                    /\ thr[p].resp.status = 400
                    /\ ~thr[p].call.invoked
            /\ (Called(p) /\ thr[p].req.name \notin RegisteredNames) =>
                    /\ thr[p].resp.kind = "error"
                    /\ thr[p].resp.code = -32601
                    /\ thr[p].resp.status = 404
                    /\ thr[p].resp.msg = thr[p].req.name
                    /\ ~thr[p].call.invoked

\* Two arguments objects with the same keys that differ at most in the
\* values of the reserved keys.
SameButReserved(d, e) ==
    /\ DOMAIN d = DOMAIN e
    /\ \A k \in DOMAIN d \ ReservedParams : d[k] = e[k]

\* C14: what a tool's reserved parameters are bound to never comes from
\* the client: the same tools/call request with other values under the
\* keys service and mcp_session_id of params.arguments invokes the tool
\* with the same arguments, and mcp_session_id, when the tool declares it,
\* is bound to the request's session token.
C14_ReservedFromDispatcher ==
    \A p \in Procs :
        (/\ Called(p)
         /\ thr[p].req.name \in RegisteredNames
         /\ thr[p].req.arguments.kind = "dict") =>
            /\ \A e \in ArgDicts :
                  SameButReserved(thr[p].req.arguments.d, e) =>
                      call_tool(thr[p].req.name, ArgsDict(e), thr[p].sid).call
                          = thr[p].call
            /\ (/\ thr[p].call.invoked
                /\ "mcp_session_id" \in ParamNames(tools_registry[thr[p].req.name])) =>
                    /\ thr[p].call.args["mcp_session_id"] = thr[p].sid
                    /\ thr[p].req.header # None => thr[p].sid = thr[p].req.header

\* C15: when tools/call invokes a registered tool, the keyword arguments
\* hold, for every declared parameter p that is not reserved, arguments[p]
\* if params.arguments has the key p, else p's default if it declares one,
\* else nothing; and they hold no key the tool does not declare.
C15_ArgumentBinding ==
    \A p \in Procs :
        (Called(p) /\ thr[p].call.invoked) =>
            LET tool == tools_registry[thr[p].req.name]
                d == IF thr[p].req.arguments.kind = "dict"
                     THEN thr[p].req.arguments.d ELSE EmptyArgs
                args == thr[p].call.args
            IN  /\ thr[p].req.name \in RegisteredNames
                /\ DOMAIN args \subseteq ParamNames(tool)
                /\ \A n \in ParamNames(tool) \ ReservedParams :
                      IF n \in DOMAIN d
                      THEN n \in DOMAIN args /\ args[n] = d[n]
                      ELSE IF DefaultOf(tool, n) # Empty
                      THEN n \in DOMAIN args /\ args[n] = DefaultOf(tool, n)
                      ELSE n \notin DOMAIN args

\* A tool has returned after a call that gave it `a` from the client,
\* `b` from its default, and not the undeclared key the client sent.
C15_Witness ==
    /\ Called(SeqProc)
    /\ thr[SeqProc].req.name = "search"
    /\ thr[SeqProc].req.arguments.kind = "dict"
    /\ DOMAIN thr[SeqProc].req.arguments.d = {"service", "a", "zzz"}
    /\ thr[SeqProc].call.invoked
    /\ thr[SeqProc].call.args["a"] = thr[SeqProc].req.arguments.d["a"]
    /\ thr[SeqProc].call.args["b"] = "d5"
    /\ "zzz" \notin DOMAIN thr[SeqProc].call.args
    /\ thr[SeqProc].resp.kind = "result"

C17_ExpiryAndSweep ==
    [][/\ \A p \in Procs :
            LET t == thr[p]
                u == thr'[p]
            IN  /\ (Steps(p, "get") /\ IdleTooLong(t.sid)) =>
                      /\ u.pc = "done" /\ u.ret = RetNone
                      /\ t.sid \notin DOMAIN sessions'
                      /\ \A i \in DOMAIN sessions \ {t.sid} :
                            i \in DOMAIN sessions' /\ sessions'[i] = sessions[i]
                /\ Steps(p, "count") =>
                      u.ret = RetInt(Cardinality(DOMAIN sessions))
       /\ (thr' = thr /\ now' = now) =>
            /\ DOMAIN sessions' = {i \in DOMAIN sessions : ~IdleTooLong(i)}
            /\ \A i \in DOMAIN sessions' : sessions'[i] = sessions[i]
            /\ (\A i \in DOMAIN sessions : IdleTooLong(i)) =>
                  Cardinality(DOMAIN sessions') = 0]_vars

\* Two sessions were created, both have outlived the timeout and are
\* gone, and get_session_count has answered 0.
C17_Witness ==
    /\ thr[SeqProc].pc = "done"
    /\ thr[SeqProc].op = "get_session_count"
    /\ thr[SeqProc].ret = RetInt(0)
    /\ nextObj = 3
    /\ now > session_timeout
    /\ DOMAIN sessions = {}

\* C18: the clock never runs backwards, no store operation lowers the
\* last_accessed of the record under a session id (a record created under
\* the id later starts at the current time, which no earlier value
\* exceeds), and get_session returning a record, get_or_create_session
\* returning an existing record and initialize_session returning True each
\* leave the record's last_accessed at the current time.
C18_LastAccessedMonotone ==
    [][/\ now' >= now
       /\ \A i \in DOMAIN sessions' :
            /\ sessions'[i].last_accessed <= now'
            /\ i \in DOMAIN sessions =>
                  sessions'[i].last_accessed >= sessions[i].last_accessed
       /\ \A p \in Procs :
            LET t == thr[p]
                u == thr'[p]
            IN  (\/ Steps(p, "get") /\ u.ret.tag = "session"
                 \/ Steps(p, "goc_get") /\ u.ret.tag = "session"
                 \/ Steps(p, "init_touch") /\ u.ret = RetBool(TRUE)) =>
                    /\ t.sid \in DOMAIN sessions'
                    /\ sessions'[t.sid].last_accessed = now]_vars

\* get_session has returned a record that was created at an earlier time,
\* and the record's last_accessed is the current time.
C18_Witness ==
    /\ thr[SeqProc].pc = "done"
    /\ thr[SeqProc].op = "get_session"
    /\ thr[SeqProc].ret.tag = "session"
    /\ thr[SeqProc].sid \in DOMAIN sessions
    /\ sessions[thr[SeqProc].sid].obj = thr[SeqProc].ret.val
    /\ sessions[thr[SeqProc].sid].created_at < now
    /\ sessions[thr[SeqProc].sid].last_accessed = now

\* C19: with get_or_create_session the only operation on an id, a call
\* leaves the record it returns stored under the id with last_accessed at
\* the current time; until a call on that id, a record that has not
\* outlived the timeout stays as it is; and a call that finds the record
\* not more than session_timeout old returns that record, creates nothing,
\* leaves the ids of the store unchanged, and leaves the record's
\* created_at, initialized, client_info and capabilities as they were.
C19_SecondCallSameRecord ==
    [][\A p \in Procs :
        LET t == thr[p]
            u == thr'[p]
        IN  /\ ((Steps(p, "goc_get") \/ Steps(p, "create")) /\ u.pc = "done") =>
                /\ u.sid \in DOMAIN sessions'
                /\ u.ret = RetSession(sessions'[u.sid].obj)
                /\ sessions'[u.sid].last_accessed = now
            /\ \A i \in DOMAIN sessions :
                  (/\ \A q \in Procs : ~(Steps(q, "goc_get") /\ thr[q].sid = i)
                   /\ now' - sessions[i].last_accessed <= session_timeout) =>
                      i \in DOMAIN sessions' /\ sessions'[i] = sessions[i]
            /\ (/\ Steps(p, "goc_get")
                /\ t.sid \in DOMAIN sessions
                /\ now - sessions[t.sid].last_accessed <= session_timeout) =>
                    /\ u.pc = "done"
                    /\ u.ret = RetSession(sessions[t.sid].obj)
                    /\ nextObj' = nextObj
                    /\ DOMAIN sessions' = DOMAIN sessions
                    /\ sessions'[t.sid] =
                          [sessions[t.sid] EXCEPT !.last_accessed = now]
                    /\ sessions'[t.sid].last_accessed >= sessions[t.sid].last_accessed
                    /\ \A i \in DOMAIN sessions \ {t.sid} : sessions'[i] = sessions[i]]_vars

\* The one caller's get_or_create_session has returned, for a client's id,
\* the only record ever created, some time after its creation.
C19_Witness ==
    /\ thr[SeqProc].pc = "done"
    /\ thr[SeqProc].op = "get_or_create_session"
    /\ thr[SeqProc].sid \in ClientIds
    /\ thr[SeqProc].sid \in DOMAIN sessions
    /\ thr[SeqProc].ret = RetSession(sessions[thr[SeqProc].sid].obj)
    /\ nextObj = 2
    /\ sessions[thr[SeqProc].sid].created_at < now
    /\ now - sessions[thr[SeqProc].sid].created_at < session_timeout
    /\ sessions[thr[SeqProc].sid].last_accessed = now

\* The HTTP status the interface pairs with each JSON-RPC error code.
StatusOf(code) ==
    CASE code \in {-32700, -32600, -32602} -> 400
      [] code = -32601 -> 404
      [] code = -32603 -> 500

\* C20: every response of handle_mcp_request is a result with HTTP 200 or
\* an error whose code is one of -32700, -32600, -32601, -32602, -32603,
\* sent with 400 for -32700, -32600 and -32602, 404 for -32601 and 500 for
\* -32603.
C20_StatusPairing ==
    \A p \in Procs :
        (thr[p].pc = "done" /\ thr[p].op = "handle_mcp_request") =>
            \/ thr[p].resp.kind = "result" /\ thr[p].resp.status = 200
            \/ /\ thr[p].resp.kind = "error"
               /\ thr[p].resp.code \in {-32700, -32600, -32601, -32602, -32603}
               /\ thr[p].resp.status = StatusOf(thr[p].resp.code)

\* A registered tool has raised while it ran and the request has been
\* answered with -32603 and HTTP 500.
C20_Witness ==
    /\ Called(SeqProc)
    /\ thr[SeqProc].req.name = "crash"
    /\ thr[SeqProc].call.invoked
    /\ thr[SeqProc].resp.kind = "error"
    /\ thr[SeqProc].resp.code = -32603
    /\ thr[SeqProc].resp.status = 500

\* C21: no request leaves handle_mcp_request by an exception, whatever the
\* headers, the body and what a tool raises; each is answered with one
\* envelope that carries either a result or an error.
C21_AlwaysAnswered ==
    \A p \in Procs :
        /\ thr[p].pc # "raised"
        /\ (thr[p].pc = "done" /\ thr[p].op = "handle_mcp_request") =>
              /\ thr[p].ret = RetResponse
              /\ thr[p].resp.kind \in {"result", "error"}

\* C22: an initialize request that carries a client's token and well-formed
\* parameters -- the token of a session that has expired or was swept
\* included -- is answered with a result, and when the answer is produced a
\* live session with initialized = True is stored under the token of the
\* response header.
C22_ExpiryHealed ==
    [][\A p \in Procs :
        LET t == thr[p]
            u == thr'[p]
            tok == u.resp.header
        IN  (/\ t.pc # "done" /\ u.pc = "done"
             /\ u.op = "handle_mcp_request"
             /\ u.req.method = "initialize"
             /\ u.req.header \in ClientIds
             /\ validate_envelope(u.req) = NoResp
             /\ u.req.params # "nondict"
             /\ u.req.clientInfo # NonDict) =>
                /\ u.resp.kind = "result"
                /\ tok \in DOMAIN sessions'
                /\ ~is_expired(sessions'[tok], session_timeout, now')
                /\ sessions'[tok].initialized]_vars

\* The listing a finished request carries, from either implementation.
Listed(p) ==
    /\ thr[p].pc = "done"
    /\ \/ thr[p].op = "handle_mcp_request" /\ thr[p].req.method = "tools/list"
          /\ thr[p].resp.kind = "result"
       \/ thr[p].op = "handle_tools_list"

\* C23: every tools listing, from get_tools_list and from
\* get_registered_tools, names the tools in registration order (so repeated
\* listings are identical), and no tool's properties or required holds
\* 'service' or 'mcp_session_id'.
C23_ListingOrderAndReserved ==
    \A p \in Procs :
        Listed(p) =>
            LET tools == thr[p].resp.tools
            IN  /\ NamesOf(tools) = registration_order
                /\ \A i \in DOMAIN tools :
                      /\ DOMAIN tools[i].properties \cap ReservedParams = {}
                      /\ \A j \in DOMAIN tools[i].required :
                            tools[i].required[j] \notin ReservedParams

\* The primitive the listing is to show for an annotation.
MappedType(annotation) ==
    CASE annotation = "str" -> "string"
      [] annotation = "int" -> "integer"
      [] annotation = "bool" -> "boolean"
      [] annotation \in {"list", "typing.List[str]"} -> "array"
      [] OTHER -> "string"

\* C24: in every listing, for every tool and every declared parameter that
\* is not reserved: the parameter is in required iff it has no default, its
\* property's type is the mapped primitive, and the property carries the
\* default whenever there is one.
C24_SchemaOfParameters ==
    \A p \in Procs :
        Listed(p) =>
            \A i \in DOMAIN thr[p].resp.tools :
                LET entry == thr[p].resp.tools[i]
                    params == tools_registry[entry.name].params
                IN  \A k \in DOMAIN params :
                        LET q == params[k]
                        IN  q.name \notin ReservedParams =>
                              /\ q.name \in DOMAIN entry.properties
                              /\ (\E j \in DOMAIN entry.required :
                                        entry.required[j] = q.name)
                                    <=> q.default = Empty
                              /\ entry.properties[q.name].type =
                                    MappedType(q.annotation)
                              /\ q.default # Empty =>
                                    entry.properties[q.name].default = q.default

\* A tools/call request that named a tool and has run to its end.
Finished(t) ==
    /\ t.op = "handle_mcp_request" /\ t.pc \in {"done", "raised"}
    /\ t.req.method = "tools/call" /\ t.req.params = "dict"
    /\ t.req.name # "absent"

\* C25: two tools/call requests with the same tool name and arguments end
\* the same way (same code, status, message and result, the tool invoked
\* or not alike) whatever the sessions of their callers: initialized, not
\* initialized or not stored at all.  And when initialize_session completes
\* inside an initialize request on a stored record that an earlier
\* initialize_session had already initialized, with payloads that are
\* objects, the request is answered with a result and the record is
\* initialized with the client_info and capabilities of this request.
C25_InitializationIndependent ==
    [][/\ \A p, q \in Procs :
            LET a == thr'[p]
                b == thr'[q]
            IN  (/\ Finished(a) /\ Finished(b)
                 /\ a.req.name = b.req.name
                 /\ a.req.arguments = b.req.arguments) =>
                    /\ a.pc = b.pc
                    /\ a.resp.kind = b.resp.kind
                    /\ a.resp.code = b.resp.code
                    /\ a.resp.status = b.resp.status
                    /\ a.resp.msg = b.resp.msg
                    /\ a.resp.content = b.resp.content
                    /\ a.call.times = b.call.times
       /\ \A p \in Procs :
            LET t == thr[p]
                u == thr'[p]
            IN  (/\ Steps(p, "init_touch")
                 /\ t.op = "handle_mcp_request"
                 /\ t.ci # NonDict
                 /\ t.sess \in initReturned
                 /\ t.sid \in DOMAIN sessions
                 /\ sessions[t.sid].obj = t.sess) =>
                    /\ u.pc = "done"
                    /\ u.resp.kind = "result"
                    /\ u.resp.header = t.sid
                    /\ t.sid \in DOMAIN sessions'
                    /\ sessions'[t.sid].obj = t.sess
                    /\ sessions'[t.sid].initialized
                    /\ sessions'[t.sid].client_info = Expected(t.req.clientInfo)
                    /\ sessions'[t.sid].capabilities = Expected(t.req.capabilities)
      ]_vars

\* The same tool has answered two callers with its result: one whose session
\* is initialized, one whose token names no stored session.
C25_Witness ==
    /\ Finished(thr["p1"]) /\ Finished(thr["p2"])
    /\ thr["p1"].req.name = thr["p2"].req.name
    /\ thr["p1"].resp.kind = "result" /\ thr["p2"].resp.kind = "result"
    /\ thr["p1"].sid \in DOMAIN sessions
    /\ sessions[thr["p1"].sid].initialized
    /\ thr["p2"].sid \notin DOMAIN sessions

\* What each returning tool's value reads as: search returns the str found,
\* whoami the int 42.
StringForm(tool_name) == IF tool_name = "search" THEN "found" ELSE "42"

\* C26: a tools/call answered with a result has HTTP status 200, its
\* content is exactly one block of type text whose text is the string form
\* of the value the tool returned, and the tool was invoked exactly once
\* for the request.
C26_SuccessShape ==
    \A p \in Procs :
        (Called(p) /\ thr[p].resp.kind = "result") =>
            /\ thr[p].resp.status = 200
            /\ thr[p].req.name \in {"search", "whoami"}
            /\ thr[p].resp.content =
                  <<[type |-> "text", text |-> StringForm(thr[p].req.name)]>>
            /\ thr[p].call.invoked
            /\ thr[p].call.times = 1

\* search has answered a call with its result.
C26_Witness ==
    \E p \in Procs :
        /\ Called(p) /\ thr[p].resp.kind = "result"
        /\ thr[p].req.name = "search"
        /\ thr[p].resp.content = <<[type |-> "text", text |-> "found"]>>

\* C27: receiving a request that carries a session token and whose method
\* is not initialize (a list method, tools/call, an unknown method or a
\* rejected envelope) leaves the session store as it was: no entry is added,
\* removed or touched.
C27_HeaderRequestsLeaveStore ==
    [][\A p \in Procs :
        LET u == thr'[p]
        IN  (/\ thr[p].pc = "idle" /\ u.pc # "idle"
             /\ u.op = "handle_mcp_request"
             /\ u.req.header # None
             /\ u.req.method # "initialize") =>
                /\ sessions' = sessions
                /\ nextUuid' = nextUuid]_vars

\* A tool has run under the token of a stored session, and the session is
\* still as idle as before: expired, and not renewed by the call.
C27_Witness ==
    \E p \in Procs :
        /\ Called(p) /\ thr[p].call.invoked
        /\ thr[p].req.header # None
        /\ "mcp_session_id" \in DOMAIN thr[p].call.args
        /\ thr[p].call.args["mcp_session_id"] = thr[p].req.header
        /\ IdleTooLong(thr[p].req.header)

\* C28: a lookup (get_session, get_or_create_session, initialize_session) of
\* an id whose record is expired removes the record; a record that comes to
\* be stored under an id, in place of another or of none, is new:
\* initialized = False, empty client_info and capabilities, no user_email,
\* created_at and last_accessed at the time it is created; and the
\* initialized flag and the payloads of a stored record change only by the
\* writes of initialize_session on that record.
C28_InitializationNotInherited ==
    [][/\ \A p \in Procs :
            ((Steps(p, "get") \/ Steps(p, "goc_get") \/ Steps(p, "init_get"))
             /\ IdleTooLong(thr[p].sid)) =>
                thr[p].sid \notin DOMAIN sessions'
       /\ \A i \in DOMAIN sessions' :
            (i \notin DOMAIN sessions \/ sessions[i].obj # sessions'[i].obj) =>
                /\ sessions'[i].session_id = i
                /\ ~sessions'[i].initialized
                /\ sessions'[i].client_info = EmptyDict
                /\ sessions'[i].capabilities = EmptyDict
                /\ sessions'[i].user_email = None
                /\ sessions'[i].created_at = now'
                /\ sessions'[i].last_accessed = now'
       /\ \A i \in DOMAIN sessions \cap DOMAIN sessions' :
            (/\ sessions[i].obj = sessions'[i].obj
             /\ \/ sessions[i].initialized # sessions'[i].initialized
                \/ sessions[i].client_info # sessions'[i].client_info
                \/ sessions[i].capabilities # sessions'[i].capabilities) =>
                \E p \in Procs :
                    /\ Steps(p, "init_ci") \/ Steps(p, "init_cap")
                          \/ Steps(p, "init_flag")
                    /\ thr[p].sess = sessions[i].obj]_vars

\* The only id in use has lost its first record to expiry, and
\* get_or_create_session has returned the record it created in its place:
\* not initialized, created now.
C28_Witness ==
    /\ nextUuid = 1
    /\ thr[SeqProc].pc = "done"
    /\ thr[SeqProc].op = "get_or_create_session"
    /\ thr[SeqProc].ret = RetSession(2)
    /\ thr[SeqProc].sid \in DOMAIN sessions
    /\ sessions[thr[SeqProc].sid].obj = 2
    /\ ~sessions[thr[SeqProc].sid].initialized
    /\ sessions[thr[SeqProc].sid].created_at = now
    /\ now > session_timeout

\* C29: create_session with an id that has a live entry replaces the entry
\* with a new record (initialized = False, empty payloads, created now),
\* leaves every other entry as it was and the number of entries the same;
\* create_session without an id adds exactly one entry, under a generated
\* id that no entry had, and leaves every other entry as it was.
C29_CreateReplacesOrAdds ==
    [][\A p \in Procs :
        LET t == thr[p]
            u == thr'[p]
        IN  (Steps(p, "create") /\ t.op = "create_session") =>
              /\ \A i \in DOMAIN sessions \ {u.sid} :
                    i \in DOMAIN sessions' /\ sessions'[i] = sessions[i]
              /\ u.sid \in DOMAIN sessions'
              /\ u.ret = RetSession(sessions'[u.sid].obj)
              /\ (t.sid # None /\ t.sid \in DOMAIN sessions /\ ~IdleTooLong(t.sid)) =>
                    /\ u.sid = t.sid
                    /\ DOMAIN sessions' = DOMAIN sessions
                    /\ Cardinality(DOMAIN sessions') = Cardinality(DOMAIN sessions)
                    /\ sessions'[t.sid].obj # sessions[t.sid].obj
                    /\ ~sessions'[t.sid].initialized
                    /\ sessions'[t.sid].client_info = EmptyDict
                    /\ sessions'[t.sid].capabilities = EmptyDict
                    /\ sessions'[t.sid].created_at = now
              /\ t.sid = None =>
                    /\ u.sid \notin DOMAIN sessions
                    /\ DOMAIN sessions' = DOMAIN sessions \cup {u.sid}
                    /\ Cardinality(DOMAIN sessions') =
                          Cardinality(DOMAIN sessions) + 1]_vars

\* create_session has replaced the live record of the only id in use: no
\* time has passed since the first record was created.
C29_Witness ==
    /\ nextUuid = 1
    /\ now = 0
    /\ thr[SeqProc].pc = "done"
    /\ thr[SeqProc].op = "create_session"
    /\ thr[SeqProc].ret = RetSession(2)
    /\ thr[SeqProc].sid \in DOMAIN sessions
    /\ sessions[thr[SeqProc].sid].obj = 2
    /\ ~sessions[thr[SeqProc].sid].initialized

C31_RegistryFixedAndListedWhole ==
    [][/\ registry_keys' = registry_keys
       /\ \A p \in Procs :
            LET u == thr'[p]
            IN  (/\ u.pc = "done" /\ u.op = "handle_mcp_request"
                 /\ u.req.body = "object" /\ u.req.jsonrpc = "2.0"
                 /\ u.req.method = "tools/list") =>
                    /\ u.resp.kind = "result"
                    /\ Len(u.resp.tools) = Len(registry_keys)
                    /\ \A i \in DOMAIN registry_keys :
                          /\ u.resp.tools[i].name = registry_keys[i]
                          /\ tools_registry[registry_keys[i]].signature # "ok" =>
                                /\ DOMAIN u.resp.tools[i].properties = {}
                                /\ u.resp.tools[i].required = <<>>]_vars

\* A listing has been answered for a registry that holds, between two
\* readable tools, one whose signature cannot be read.
C31_Witness ==
    \E p \in Procs :
        /\ thr[p].pc = "done" /\ thr[p].op = "handle_mcp_request"
        /\ thr[p].req.method = "tools/list"
        /\ thr[p].resp.kind = "result"
        /\ registry_keys = <<"search", "opaque", "abort">>
        /\ NamesOf(thr[p].resp.tools) = registry_keys
        /\ DOMAIN thr[p].resp.tools[1].properties = {"a", "b"}
        /\ DOMAIN thr[p].resp.tools[2].properties = {}

=============================================================================
